---- MODULE Spec2Model ----
(***************************************************************************)
(* Open tracking of the Altara tracking server.                            *)
(*                                                                         *)
(* The repository holds two builds of the server: src/index.js and         *)
(* src/unnamed/part_000.  Both serve GET /track/open/:emailId against the  *)
(* same MongoDB collections (email_tracking, email_opens).  The variable   *)
(* `server` says which build is deployed; it is chosen in Init and never   *)
(* changes.  Every await of a handler is a point where other handlers,     *)
(* the clock and the store may take steps: an action is one store          *)
(* operation taking effect together with the synchronous code that runs    *)
(* when its await returns.                                                 *)
(***************************************************************************)
EXTENDS Integers, Sequences, FiniteSets, TLC

VARIABLES server, client, now, ticks, emailTracking, emailOpens, handlers,
          reqs, failures, syncs, responses,
          emailClicks, attachmentTracking, attachmentDownloads, tracker, tracks

(* The state of the click, attachment and reading-time endpoints *)
trackingVars ==
  <<emailClicks, attachmentTracking, attachmentDownloads, tracker, tracks>>

vars == <<server, client, now, ticks, emailTracking, emailOpens, handlers,
          reqs, failures, syncs, responses, trackingVars>>

-----------------------------------------------------------------------------
(* Bounds of the model *)

MaxInFlight == 2
MaxRequests == 2
MaxTicks == 1
MaxFailures == 1
MaxSyncs == 1
MaxTracks == 1

(* Inputs *)

EmailIds == {"e1", "e2"}
Recipients == {"ann@x.io", "bob@x.io"}
UserAgents == {"Mozilla/5.0 (Macintosh) AppleWebKit/605",
               "Mozilla/5.0 Outlook-iOS/1.0 mail-scanner",
               "AppleMAIL/16.0",
               "curl/8.1"}
IpAddresses == {"203.0.113.7", "127.0.0.1"}
TickSteps == {2000, 5000, 10000, 31000}
StartTime == 60 * 1000

(* The clients of the model, as <<User-Agent, address>>: one per rule of   *)
(* the classifiers, on a public address unless the rule is about the       *)
(* address.  The requests of one behaviour come from one client.           *)
BrowserUA == "Mozilla/5.0 (Macintosh) AppleWebKit/605"
PublicIp == "203.0.113.7"
Clients ==
  {<<ua, ip>> \in UserAgents \X IpAddresses : ua = BrowserUA \/ ip = PublicIp}
Targets ==
  {<<e, r>> \in EmailIds \X Recipients : e = "e1" \/ r = "ann@x.io"}

Builds == {"index.js", "part_000"}

-----------------------------------------------------------------------------
(* Clock and ISO-8601 timestamps.  An ISO string of toISOString() is       *)
(* fixed-width, seconds first and milliseconds last; it is modelled by the *)
(* pair <<seconds, milliseconds>> and compared field by field, the way the *)
(* store compares the strings character by character.                      *)

toISOString(ms) == <<ms \div 1000, ms % 1000>>

nowIso == toISOString(now)

DateParse(iso) == iso[1] * 1000 + iso[2]

IsoGte(a, b) == \/ a[1] > b[1]
                \/ a[1] = b[1] /\ a[2] >= b[2]

NoTime == <<-1, 0>>
Null == "null"

(* readingTime: null, and the NaN that parseInt gives for no number *)
NoReadingTime == 0 - 1
NaN == 0 - 2

-----------------------------------------------------------------------------
(* String helpers of the classifier *)

UpperChars == "ABCDEFGHIJKLMNOPQRSTUVWXYZ"
LowerChars == "abcdefghijklmnopqrstuvwxyz"

LowerChar(c) ==
  IF \E i \in 1..Len(UpperChars) : SubSeq(UpperChars, i, i) = c
    THEN LET i == CHOOSE k \in 1..Len(UpperChars) : SubSeq(UpperChars, k, k) = c
         IN  SubSeq(LowerChars, i, i)
    ELSE c

RECURSIVE toLowerCase(_)
toLowerCase(s) ==
  IF Len(s) = 0 THEN ""
  ELSE LowerChar(SubSeq(s, 1, 1)) \o toLowerCase(SubSeq(s, 2, Len(s)))

includes(s, t) ==
  \E i \in 1..(Len(s) - Len(t) + 1) : SubSeq(s, i, i + Len(t) - 1) = t

-----------------------------------------------------------------------------
(* The tracking pixel *)

GifBase64 == "R0lGODlhAQABAIAAAAAAAP///yH5BAEAAAAALAAAAAABAAEAAAIBRAA7"

Base64Padding(s) ==
  IF Len(s) >= 2 /\ SubSeq(s, Len(s) - 1, Len(s)) = "==" THEN 2
  ELSE IF Len(s) >= 1 /\ SubSeq(s, Len(s), Len(s)) = "=" THEN 1
  ELSE 0

BufferFromBase64(s) ==
  [data |-> s, length |-> (Len(s) * 3) \div 4 - Base64Padding(s)]

transparentGif == BufferFromBase64(GifBase64)

PixelHeaders ==
  [contentType |-> "image/gif",
   contentLength |-> transparentGif.length,
   cacheControl |-> "no-cache, no-store, must-revalidate",
   pragma |-> "no-cache",
   expires |-> "0"]

SendPixel == [status |-> 200, headers |-> PixelHeaders, body |-> transparentGif]

(* An answer without the image, as a handler that skipped res.send gives *)
NoContentResponse == [SendPixel EXCEPT !.status = 204]

(* The five places that answer an open request *)
SuspiciousResponse == SendPixel
IndexOpenResponse == SendPixel
SkipAutomatedResponse == SendPixel
SkipImmediateResponse == SendPixel
OpenResponse == SendPixel

(* What the handler answers once its try block is left: the catch block   *)
(* logs the error and control falls through to the pixel.                  *)
IndexAfterTry(outcome) == IndexOpenResponse

(* A catch block that answers res.status(500) instead of falling through *)
ErrorStatusAfterTry(outcome) ==
  IF outcome = "error" THEN [OpenResponse EXCEPT !.status = 500]
                       ELSE OpenResponse

OpenAfterTry(outcome) == OpenResponse

-----------------------------------------------------------------------------
(* Classifier *)

suspiciousUserAgents ==
  {"bot", "crawler", "spider", "scanner", "checker", "monitor",
   "preview", "prefetch", "security", "antivirus", "firewall"}

isSuspicious(userAgent) ==
  LET lower == toLowerCase(userAgent)
  IN  \E term \in suspiciousUserAgents : includes(lower, term)

automatedAgents ==
  {"bot", "crawler", "spider", "scraper", "preview", "validator",
   "checker", "monitor", "scanner", "fetcher", "downloader",
   "email", "mail", "client", "server", "daemon", "service"}

LoopbackAddresses == {"127.0.0.1", "::1", "localhost"}

MinUserAgentLength == 10

isAutomatedRequest(userAgent, ipAddress) ==
  \/ LET lowerUserAgent == toLowerCase(userAgent)
     IN  \E agent \in automatedAgents : includes(lowerUserAgent, agent)
  \/ ipAddress \in LoopbackAddresses
  \/ Len(userAgent) = 0
  \/ Len(userAgent) < MinUserAgentLength

(* The classifier is a function of the request alone; its value on each of *)
(* the inputs of the model is computed once.                               *)
Suspicious == [ua \in UserAgents |-> isSuspicious(ua)]

Automated ==
  [ua \in UserAgents |-> [ip \in IpAddresses |-> isAutomatedRequest(ua, ip)]]

SendTimeThresholdMs == 5000

DedupWindowMs == 30000

-----------------------------------------------------------------------------
(* Store documents *)

NoDoc == [id |-> Null]

(* { id, sentAt: nowIso(), status, openCount: 0, ..., ...defaults }: the   *)
(* fields of defaults replace those of the literal.  The fields the        *)
(* literal lacks (recipientEmail, lastOpenedAt, lastClickedAt,             *)
(* averageReadingTime) are absent until an update sets them.               *)
baseDefaults(emailId, sentAt, defaults) ==
  LET base == [id |-> emailId,
               sentAt |-> sentAt,
               status |-> "sent",
               openCount |-> 0,
               clickCount |-> 0,
               attachmentDownloads |-> 0,
               attachmentOpens |-> 0,
               recipientEmail |-> Null,
               lastOpenedAt |-> NoTime,
               lastClickedAt |-> NoTime,
               averageReadingTime |-> NoReadingTime]
  IN  [f \in DOMAIN base |->
         IF f \in DOMAIN defaults THEN defaults[f] ELSE base[f]]

(* A collection is the set of its documents.  findOne({id}) gives a       *)
(* document of that id, or null.                                           *)
findOne(coll, emailId) ==
  IF \E d \in coll : d.id = emailId
    THEN CHOOSE d \in coll : d.id = emailId
    ELSE NoDoc

(* insertOne(doc): what an upsert would do if it did not look first *)
InsertOne(coll, emailId, doc) == coll \cup {doc}

(* updateOne({id}, {$set: baseDefaults}, {upsert: true}): the defaults    *)
(* replace the fields of an existing document                              *)
UpsertSet(coll, emailId, doc) == {d \in coll : d.id # emailId} \cup {doc}

(* updateOne({id}, {$setOnInsert: baseDefaults}, {upsert: true}): one     *)
(* store operation; the document is inserted when none has the id, and an  *)
(* existing one is left as it is                                           *)
UpsertSetOnInsert(coll, emailId, doc) ==
  IF findOne(coll, emailId) = NoDoc THEN coll \cup {doc} ELSE coll

-----------------------------------------------------------------------------
(* Request handlers.  A handler slot holds the local variables of one      *)
(* invocation of the open handler; pc names the store operation it awaits. *)
(* reqs is the log of the requests received, kept for stating properties:  *)
(* reqs[i] is the i-th request, and the OpenEvent it inserts carries id i  *)
(* (the code draws 16 random bytes).  A request answered before its first  *)
(* await leaves only its outcome in the log.                               *)

HandlerIds == 1..MaxInFlight

IdleHandler ==
  [pc |-> "idle", req |-> 0, emailId |-> Null, recipientEmail |-> Null,
   userAgent |-> "", ipAddress |-> "", timestamp |-> NoTime,
   sentAtDefault |-> NoTime, emailDoc |-> NoDoc, cutoff |-> NoTime]

InFlight == {h \in HandlerIds : handlers[h].pc # "idle"}

FreeSlot ==
  CHOOSE h \in HandlerIds :
    /\ handlers[h].pc = "idle"
    /\ \A g \in HandlerIds : handlers[g].pc = "idle" => h <= g

NewReq(emailId, recipientEmail) ==
  [emailId |-> emailId, recipientEmail |-> recipientEmail, at |-> now,
   outcome |-> "pending", ops |-> <<>>, failedOps |-> {},
   created |-> FALSE, cutoff |-> NoTime, overlapped |-> InFlight # {}]

Skipped ==
  [emailId |-> Null, recipientEmail |-> Null, at |-> -1,
   outcome |-> "automated", ops |-> <<>>, failedOps |-> {},
   created |-> FALSE, cutoff |-> NoTime, overlapped |-> FALSE]

(* The log after request number Len(reqs)+1 arrives: the requests in      *)
(* flight are marked as overlapped by it.                                  *)
Arrive(entry) ==
  Append([i \in 1..Len(reqs) |->
            IF \E h \in InFlight : handlers[h].req = i
              THEN [reqs[i] EXCEPT !.overlapped = TRUE] ELSE reqs[i]],
         entry)

Answered(outcome, response) ==
  responses \cup {[outcome |-> outcome, response |-> response]}

(* The handler in slot h ends: it has answered and its locals are gone.    *)
Finish(h, outcome, response, log) ==
  /\ handlers' = [handlers EXCEPT ![h] = IdleHandler]
  /\ reqs' = [log EXCEPT ![handlers[h].req].outcome = outcome]
  /\ responses' = Answered(outcome, response)

Attempt(h, op) ==
  [reqs EXCEPT ![handlers[h].req].ops = Append(@, op)]

Failed(h, op) ==
  [reqs EXCEPT ![handlers[h].req].ops = Append(@, op),
               ![handlers[h].req].failedOps = @ \cup {op}]

(* Store operations can fail (the driver rejects the promise); a failed    *)
(* operation leaves the store as it was.                                   *)
MayFail(ok) == ok \/ failures < MaxFailures

CountFailure(ok) == failures' = IF ok THEN failures ELSE failures + 1

openData(h) ==
  [id |-> handlers[h].req,
   emailId |-> handlers[h].emailId,
   recipientEmail |-> handlers[h].recipientEmail,
   userAgent |-> handlers[h].userAgent,
   ipAddress |-> handlers[h].ipAddress,
   timestamp |-> handlers[h].timestamp,
   readingTime |-> NoReadingTime,
   readingEndTime |-> NoTime]

(* await ensureEmailDocument(emailId, { recipientEmail }); sentAt was      *)
(* stamped when the handler called it                                      *)
EnsureEmailDocument(h) ==
  UpsertSetOnInsert(emailTracking, handlers[h].emailId,
                    baseDefaults(handlers[h].emailId, handlers[h].sentAtDefault,
                                 [recipientEmail |-> handlers[h].recipientEmail]))

Ensured(h) ==
  [Attempt(h, "ensure") EXCEPT ![handlers[h].req].created =
                                  (findOne(emailTracking, handlers[h].emailId) = NoDoc)]

(* A read-modify-write in the handler: the count of the document the     *)
(* handler read earlier, plus one                                          *)
ReadModifyWrite(doc, h) ==
  IF handlers[h].emailDoc = NoDoc THEN 1
  ELSE handlers[h].emailDoc.openCount + 1

(* updateOne({id}, {$inc: {openCount: 1}, $set: {lastOpenedAt, recipientEmail}}) *)
IncOpenCount(doc, h) == doc.openCount + 1

(* The update with the $inc alone, the $set left out *)
IncrementOnly(coll, h) ==
  LET doc == findOne(coll, handlers[h].emailId)
  IN  IF doc = NoDoc THEN coll
      ELSE (coll \ {doc}) \cup
             {[doc EXCEPT !.openCount = IncOpenCount(doc, h)]}

RecordOpenUpdate(coll, h) ==
  LET emailId == handlers[h].emailId
      doc == findOne(coll, emailId)
  IN  IF doc = NoDoc THEN coll
      ELSE (coll \ {doc}) \cup
             {[doc EXCEPT !.openCount = IncOpenCount(doc, h),
                          !.lastOpenedAt = handlers[h].timestamp,
                          !.recipientEmail = handlers[h].recipientEmail]}

-----------------------------------------------------------------------------
(* src/index.js: app.get('/track/open/:emailId') *)

(* up to the first await: the denylist, openData, the call of ensure *)
IndexReceive(emailId, recipientEmail, userAgent, ipAddress) ==
  /\ server = "index.js"
  /\ Len(reqs) < MaxRequests
  /\ InFlight # HandlerIds
  /\ IF Suspicious[userAgent]
       THEN /\ reqs' = Append(reqs, Skipped)
            /\ responses' = Answered("automated", SuspiciousResponse)
            /\ UNCHANGED handlers
       ELSE /\ reqs' = Arrive(NewReq(emailId, recipientEmail))
            /\ handlers' = [handlers EXCEPT ![FreeSlot] =
                 [IdleHandler EXCEPT !.pc = "ensure",
                                     !.req = Len(reqs) + 1,
                                     !.emailId = emailId,
                                     !.recipientEmail = recipientEmail,
                                     !.userAgent = userAgent,
                                     !.ipAddress = ipAddress,
                                     !.timestamp = nowIso,
                                     !.sentAtDefault = nowIso]]
            /\ UNCHANGED responses
  /\ UNCHANGED <<server, client, now, ticks, emailTracking, emailOpens,
                 failures, syncs>>
  /\ UNCHANGED trackingVars

(* new Date(Date.now() - 30000).toISOString() *)
DedupCutoff == toISOString(now - DedupWindowMs)

(* ensure returns; the handler computes the window and asks for a recent open *)
IndexEnsure(h) ==
  /\ server = "index.js"
  /\ handlers[h].pc = "ensure"
  /\ \E ok \in BOOLEAN :
       /\ MayFail(ok)
       /\ CountFailure(ok)
       /\ IF ok
            THEN /\ emailTracking' = EnsureEmailDocument(h)
                 /\ reqs' = [Ensured(h) EXCEPT
                      ![handlers[h].req].cutoff = DedupCutoff]
                 /\ handlers' = [handlers EXCEPT
                      ![h].pc = "findRecent",
                      ![h].cutoff = DedupCutoff]
                 /\ UNCHANGED responses
            ELSE /\ Finish(h, "error", IndexAfterTry("error"), Failed(h, "ensure"))
                 /\ UNCHANGED emailTracking
  /\ UNCHANGED <<server, client, now, ticks, emailOpens, syncs>>
  /\ UNCHANGED trackingVars

(* The lookup keyed on the emailId alone *)
recentOpenAnyRecipient(h) ==
  \E ev \in emailOpens :
    /\ ev.emailId = handlers[h].emailId
    /\ IsoGte(ev.timestamp, handlers[h].cutoff)

(* The lookup with the window left out: timestamp >= now *)
recentOpenNoWindow(h) ==
  \E ev \in emailOpens :
    /\ ev.emailId = handlers[h].emailId
    /\ ev.recipientEmail = handlers[h].recipientEmail
    /\ IsoGte(ev.timestamp, nowIso)

(* emailOpensCollection.findOne({emailId, recipientEmail, timestamp: {$gte}}) *)
recentOpen(h) ==
  \E ev \in emailOpens :
    /\ ev.emailId = handlers[h].emailId
    /\ ev.recipientEmail = handlers[h].recipientEmail
    /\ IsoGte(ev.timestamp, handlers[h].cutoff)

IndexFindRecent(h) ==
  /\ server = "index.js"
  /\ handlers[h].pc = "findRecent"
  /\ \E ok \in BOOLEAN :
       /\ MayFail(ok)
       /\ CountFailure(ok)
       /\ IF ~ok
            THEN Finish(h, "error", IndexAfterTry("error"), Failed(h, "findRecent"))
            ELSE IF recentOpen(h)
                   THEN Finish(h, "duplicate", IndexAfterTry("duplicate"),
                               Attempt(h, "findRecent"))
                   ELSE /\ handlers' = [handlers EXCEPT ![h].pc = "insert"]
                        /\ reqs' = Attempt(h, "findRecent")
                        /\ UNCHANGED responses
  /\ UNCHANGED <<server, client, now, ticks, emailTracking, emailOpens, syncs>>
  /\ UNCHANGED trackingVars

IndexInsert(h) ==
  /\ server = "index.js"
  /\ handlers[h].pc = "insert"
  /\ \E ok \in BOOLEAN :
       /\ MayFail(ok)
       /\ CountFailure(ok)
       /\ IF ok
            THEN /\ emailOpens' = emailOpens \cup {openData(h)}
                 /\ reqs' = Attempt(h, "insert")
                 /\ handlers' = [handlers EXCEPT ![h].pc = "update"]
                 /\ UNCHANGED responses
            ELSE /\ Finish(h, "error", IndexAfterTry("error"), Failed(h, "insert"))
                 /\ UNCHANGED emailOpens
  /\ UNCHANGED <<server, client, now, ticks, emailTracking, syncs>>
  /\ UNCHANGED trackingVars

IndexUpdate(h) ==
  /\ server = "index.js"
  /\ handlers[h].pc = "update"
  /\ \E ok \in BOOLEAN :
       /\ MayFail(ok)
       /\ CountFailure(ok)
       /\ IF ok
            THEN /\ emailTracking' = RecordOpenUpdate(emailTracking, h)
                 /\ Finish(h, "recorded", IndexAfterTry("recorded"), Attempt(h, "update"))
            ELSE /\ Finish(h, "error", IndexAfterTry("error"), Failed(h, "update"))
                 /\ UNCHANGED emailTracking
  /\ UNCHANGED <<server, client, now, ticks, emailOpens, syncs>>
  /\ UNCHANGED trackingVars

-----------------------------------------------------------------------------
(* src/unnamed/part_000: app.get("/track/open/:emailId") *)

(* up to the first await: isAutomatedRequest, then the send-time lookup *)
OpenReceive(emailId, recipientEmail, userAgent, ipAddress) ==
  /\ server = "part_000"
  /\ Len(reqs) < MaxRequests
  /\ InFlight # HandlerIds
  /\ IF Automated[userAgent][ipAddress]
       THEN /\ reqs' = Append(reqs, Skipped)
            /\ responses' = Answered("automated", SkipAutomatedResponse)
            /\ UNCHANGED handlers
       ELSE /\ reqs' = Arrive(NewReq(emailId, recipientEmail))
            /\ handlers' = [handlers EXCEPT ![FreeSlot] =
                 [IdleHandler EXCEPT !.pc = "findSent",
                                     !.req = Len(reqs) + 1,
                                     !.emailId = emailId,
                                     !.recipientEmail = recipientEmail,
                                     !.userAgent = userAgent,
                                     !.ipAddress = ipAddress]]
            /\ UNCHANGED responses
  /\ UNCHANGED <<server, client, now, ticks, emailTracking, emailOpens,
                 failures, syncs>>
  /\ UNCHANGED trackingVars

(* No send-time check at all *)
neverRecent(emailDoc) == FALSE

(* The check without "if (emailDoc)": an unknown email counts as just sent *)
sentRecentlyOrUnknown(emailDoc) ==
  \/ emailDoc = NoDoc
  \/ now - DateParse(emailDoc.sentAt) < SendTimeThresholdMs

(* timeDiff = now - sentTime; if (timeDiff < 5000) *)
sentRecently(emailDoc) ==
  /\ emailDoc # NoDoc
  /\ now - DateParse(emailDoc.sentAt) < SendTimeThresholdMs

(* builds openData and calls ensureEmailDocument, both stamped nowIso() *)
StartRecording(h, emailDoc) ==
  [handlers EXCEPT ![h].pc = "ensure",
                   ![h].emailDoc = emailDoc,
                   ![h].timestamp = nowIso,
                   ![h].sentAtDefault = nowIso]

(* findOne({ id: emailId }) returns or throws; an error is caught and     *)
(* logged, and the handler goes on to record the open                     *)
OpenFindSent(h) ==
  /\ server = "part_000"
  /\ handlers[h].pc = "findSent"
  /\ \E ok \in BOOLEAN :
       /\ MayFail(ok)
       /\ CountFailure(ok)
       /\ LET emailDoc == IF ok THEN findOne(emailTracking, handlers[h].emailId) ELSE NoDoc
          IN  IF sentRecently(emailDoc)
                THEN Finish(h, "sendtime", SkipImmediateResponse,
                            Attempt(h, "findSent"))
                ELSE /\ handlers' = StartRecording(h, emailDoc)
                     /\ reqs' = IF ok THEN Attempt(h, "findSent")
                                      ELSE Failed(h, "findSent")
                     /\ UNCHANGED responses
  /\ UNCHANGED <<server, client, now, ticks, emailTracking, emailOpens, syncs>>
  /\ UNCHANGED trackingVars

OpenEnsure(h) ==
  /\ server = "part_000"
  /\ handlers[h].pc = "ensure"
  /\ \E ok \in BOOLEAN :
       /\ MayFail(ok)
       /\ CountFailure(ok)
       /\ IF ok
            THEN /\ emailTracking' = EnsureEmailDocument(h)
                 /\ reqs' = Ensured(h)
                 /\ handlers' = [handlers EXCEPT ![h].pc = "insert"]
                 /\ UNCHANGED responses
            ELSE /\ Finish(h, "error", OpenAfterTry("error"), Failed(h, "ensure"))
                 /\ UNCHANGED emailTracking
  /\ UNCHANGED <<server, client, now, ticks, emailOpens, syncs>>
  /\ UNCHANGED trackingVars

OpenInsert(h) ==
  /\ server = "part_000"
  /\ handlers[h].pc = "insert"
  /\ \E ok \in BOOLEAN :
       /\ MayFail(ok)
       /\ CountFailure(ok)
       /\ IF ok
            THEN /\ emailOpens' = emailOpens \cup {openData(h)}
                 /\ reqs' = Attempt(h, "insert")
                 /\ handlers' = [handlers EXCEPT ![h].pc = "update"]
                 /\ UNCHANGED responses
            ELSE /\ Finish(h, "error", OpenAfterTry("error"), Failed(h, "insert"))
                 /\ UNCHANGED emailOpens
  /\ UNCHANGED <<server, client, now, ticks, emailTracking, syncs>>
  /\ UNCHANGED trackingVars

OpenUpdate(h) ==
  /\ server = "part_000"
  /\ handlers[h].pc = "update"
  /\ \E ok \in BOOLEAN :
       /\ MayFail(ok)
       /\ CountFailure(ok)
       /\ IF ok
            THEN /\ emailTracking' = RecordOpenUpdate(emailTracking, h)
                 /\ Finish(h, "recorded", OpenAfterTry("recorded"), Attempt(h, "update"))
            ELSE /\ Finish(h, "error", OpenAfterTry("error"), Failed(h, "update"))
                 /\ UNCHANGED emailTracking
  /\ UNCHANGED <<server, client, now, ticks, emailOpens, syncs>>
  /\ UNCHANGED trackingVars

-----------------------------------------------------------------------------
(* POST /api/sync-tracking-data (both builds): the desktop application     *)
(* registers the emails it sent and uploads events.                        *)

(* The uploads of the model: the email e1, registered without a sentAt or  *)
(* with the sentAt of an email sent StartTime ms before the first state,   *)
(* and an open of e1 stamped now.                                          *)
SentAtChoices == {toISOString(0)}

SyncEmailIds == {"e1"}

SyncTargets == {<<"e1", "ann@x.io">>}

SyncDocs ==
  {[id |-> e] : e \in SyncEmailIds}
    \cup {[id |-> e, sentAt |-> t] : e \in SyncEmailIds, t \in SentAtChoices}

(* newEmailTracking.map(doc => ensureEmailDocument(doc.id, doc)) *)
SyncEmailTracking(doc) ==
  /\ syncs < MaxSyncs
  /\ syncs' = syncs + 1
  /\ emailTracking' =
       UpsertSetOnInsert(emailTracking, doc.id, baseDefaults(doc.id, nowIso, doc))
  /\ UNCHANGED <<server, client, now, ticks, emailOpens, handlers, reqs,
                 failures, responses>>
  /\ UNCHANGED trackingVars

(* emailOpensCollection.insertMany(newEmailOpens) *)
SyncEmailOpens(emailId, recipientEmail) ==
  /\ syncs < MaxSyncs
  /\ syncs' = syncs + 1
  /\ emailOpens' = emailOpens \cup
       {[id |-> -(syncs + 1), emailId |-> emailId,
         recipientEmail |-> recipientEmail, userAgent |-> "", ipAddress |-> "",
         timestamp |-> nowIso, readingTime |-> NoReadingTime,
         readingEndTime |-> NoTime]}
  /\ UNCHANGED <<server, client, now, ticks, emailTracking, handlers, reqs,
                 failures, responses>>
  /\ UNCHANGED trackingVars

-----------------------------------------------------------------------------
(* The click, attachment and reading-time endpoints.  tracker holds the    *)
(* local variables of the one such handler in flight; tracks is the log of *)
(* these requests, tracks[i].status being 0 until the handler answers.     *)

Urls == {"", "https://x.io/a%2Fb", "https://x.io/50%"}
ClickTargets == {<<"e1", "ann@x.io">>, <<"e2", "bob@x.io">>}
AttachmentIds == {"a1"}
Tokens == {"t1", "stale"}
Actions == {"download", "open", "preview"}
ReadingTimes == {"1500", "40.9", ""}
ReadingTargets == {<<"e1", "ann@x.io">>}

IdleTracker ==
  [kind |-> "idle", pc |-> "idle", track |-> 0,
   emailId |-> Null, recipientEmail |-> Null,
   timestamp |-> NoTime, sentAtDefault |-> NoTime,
   url |-> "", action |-> "", attachmentId |-> Null, token |-> "",
   readingTime |-> NoReadingTime, averageReadingTime |-> NoReadingTime]

NewTrack(kind, emailId, recipientEmail) ==
  [kind |-> kind, emailId |-> emailId, recipientEmail |-> recipientEmail,
   url |-> "", action |-> "", attachmentId |-> Null, token |-> "",
   at |-> now, status |-> 0, location |-> Null,
   ops |-> <<>>, failedOps |-> {}, created |-> FALSE, matched |-> FALSE,
   modified |-> 0]

TrackAttempt(op) == [tracks EXCEPT ![tracker.track].ops = Append(@, op)]

TrackFailed(op) ==
  [tracks EXCEPT ![tracker.track].ops = Append(@, op),
                 ![tracker.track].failedOps = @ \cup {op}]

(* The handler answers and ends *)
TrackFinish(status, location, log) ==
  /\ tracker' = IdleTracker
  /\ tracks' = [log EXCEPT ![tracker.track].status = status,
                           ![tracker.track].location = location]

(* await ensureEmailDocument(emailId, { recipientEmail }) of these handlers *)
TrackerEnsureDocument(emailId) ==
  UpsertSetOnInsert(emailTracking, emailId,
                    baseDefaults(emailId, tracker.sentAtDefault,
                                 [recipientEmail |-> tracker.recipientEmail]))

TrackerEnsured(emailId) ==
  [TrackAttempt("ensure") EXCEPT ![tracker.track].created =
                                   (findOne(emailTracking, emailId) = NoDoc)]

-----------------------------------------------------------------------------
(* decodeURIComponent: %XX with two hex digits is the character of that    *)
(* code (the table has the codes of the inputs), anything else after a %   *)
(* throws URIError.                                                        *)

URIError == "URIError"
HexDigits == "0123456789ABCDEFabcdef"

IsHex(c) == \E i \in 1..Len(HexDigits) : SubSeq(HexDigits, i, i) = c

PercentChar(hex) ==
  CASE hex = "2F" -> "/"
    [] hex = "3A" -> ":"
    [] hex = "20" -> " "
    [] OTHER -> URIError

RECURSIVE decodeURIComponent(_)
decodeURIComponent(s) ==
  IF s = "" THEN ""
  ELSE IF SubSeq(s, 1, 1) # "%"
    THEN LET rest == decodeURIComponent(SubSeq(s, 2, Len(s)))
         IN  IF rest = URIError THEN URIError ELSE SubSeq(s, 1, 1) \o rest
  ELSE IF Len(s) < 3 \/ ~IsHex(SubSeq(s, 2, 2)) \/ ~IsHex(SubSeq(s, 3, 3))
    THEN URIError
  ELSE LET c == PercentChar(SubSeq(s, 2, 3))
           rest == decodeURIComponent(SubSeq(s, 4, Len(s)))
       IN  IF c = URIError \/ rest = URIError THEN URIError ELSE c \o rest

Decoded == [url \in Urls |-> decodeURIComponent(url)]

-----------------------------------------------------------------------------
(* GET /track/click/:emailId (the same code in both builds) *)

(* A handler that takes every url, the absent one too *)
AnyUrl(url) == FALSE

(* !url: the parameter is absent or empty *)
InvalidUrl(url) == url = ""

(* if (!url) return res.status(400).send(...); else clickData and the call *)
(* of ensureEmailDocument                                                  *)
ClickReceive(emailId, recipientEmail, url) ==
  /\ tracker.kind = "idle"
  /\ Len(tracks) < MaxTracks
  /\ LET entry == [NewTrack("click", emailId, recipientEmail) EXCEPT !.url = url]
     IN  IF InvalidUrl(url)
           THEN /\ tracks' = Append(tracks, [entry EXCEPT !.status = 400])
                /\ UNCHANGED tracker
           ELSE /\ tracks' = Append(tracks, entry)
                /\ tracker' = [IdleTracker EXCEPT
                     !.kind = "click", !.pc = "ensure",
                     !.track = Len(tracks) + 1,
                     !.emailId = emailId, !.recipientEmail = recipientEmail,
                     !.url = url,
                     !.timestamp = nowIso, !.sentAtDefault = nowIso]
  /\ UNCHANGED <<server, client, now, ticks, emailTracking, emailOpens,
                 handlers, reqs, failures, syncs, responses, emailClicks,
                 attachmentTracking, attachmentDownloads>>

(* res.redirect(decodeURIComponent(url)), after the try block.  A URIError *)
(* is thrown in an async handler outside any try: the request is left      *)
(* without an answer (status -1), or answered 500 by an error middleware.  *)
ClickRedirect(log) ==
  IF Decoded[tracker.url] = URIError
    THEN \E status \in {-1, 500} : TrackFinish(status, Null, log)
    ELSE TrackFinish(302, Decoded[tracker.url], log)

ClickEnsure ==
  /\ tracker.kind = "click" /\ tracker.pc = "ensure"
  /\ \E ok \in BOOLEAN :
       /\ MayFail(ok)
       /\ CountFailure(ok)
       /\ IF ok
            THEN /\ emailTracking' = TrackerEnsureDocument(tracker.emailId)
                 /\ tracks' = TrackerEnsured(tracker.emailId)
                 /\ tracker' = [tracker EXCEPT !.pc = "insert"]
            ELSE /\ ClickRedirect(TrackFailed("ensure"))
                 /\ UNCHANGED emailTracking
  /\ UNCHANGED <<server, client, now, ticks, emailOpens, handlers, reqs,
                 syncs, responses, emailClicks, attachmentTracking,
                 attachmentDownloads>>

clickData ==
  [id |-> tracker.track,
   emailId |-> tracker.emailId,
   url |-> tracker.url,
   recipientEmail |-> tracker.recipientEmail,
   timestamp |-> tracker.timestamp]

ClickInsert ==
  /\ tracker.kind = "click" /\ tracker.pc = "insert"
  /\ \E ok \in BOOLEAN :
       /\ MayFail(ok)
       /\ CountFailure(ok)
       /\ IF ok
            THEN /\ emailClicks' = emailClicks \cup {clickData}
                 /\ tracks' = TrackAttempt("insert")
                 /\ tracker' = [tracker EXCEPT !.pc = "update"]
            ELSE /\ ClickRedirect(TrackFailed("insert"))
                 /\ UNCHANGED emailClicks
  /\ UNCHANGED <<server, client, now, ticks, emailTracking, emailOpens,
                 handlers, reqs, syncs, responses, attachmentTracking,
                 attachmentDownloads>>

(* The update with the $set alone, the $inc left out *)
SetLastClickedOnly(coll) ==
  LET doc == findOne(coll, tracker.emailId)
  IN  IF doc = NoDoc THEN coll
      ELSE (coll \ {doc}) \cup
             {[doc EXCEPT !.lastClickedAt = tracker.timestamp,
                          !.recipientEmail = tracker.recipientEmail]}

(* updateOne({id}, {$inc: {clickCount: 1}, $set: {lastClickedAt, recipientEmail}}) *)
RecordClickUpdate(coll) ==
  LET doc == findOne(coll, tracker.emailId)
  IN  IF doc = NoDoc THEN coll
      ELSE (coll \ {doc}) \cup
             {[doc EXCEPT !.clickCount = doc.clickCount + 1,
                          !.lastClickedAt = tracker.timestamp,
                          !.recipientEmail = tracker.recipientEmail]}

ClickUpdate ==
  /\ tracker.kind = "click" /\ tracker.pc = "update"
  /\ \E ok \in BOOLEAN :
       /\ MayFail(ok)
       /\ CountFailure(ok)
       /\ IF ok
            THEN /\ emailTracking' = RecordClickUpdate(emailTracking)
                 /\ ClickRedirect(TrackAttempt("update"))
            ELSE /\ ClickRedirect(TrackFailed("update"))
                 /\ UNCHANGED emailTracking
  /\ UNCHANGED <<server, client, now, ticks, emailOpens, handlers, reqs,
                 syncs, responses, emailClicks, attachmentTracking,
                 attachmentDownloads>>

-----------------------------------------------------------------------------
(* GET /track/attachment/:attachmentId (the same code in both builds) *)

AttachmentReceive(attachmentId, token, action) ==
  /\ tracker.kind = "idle"
  /\ Len(tracks) < MaxTracks
  /\ tracks' = Append(tracks,
       [NewTrack("attachment", Null, "") EXCEPT
          !.action = action, !.attachmentId = attachmentId, !.token = token])
  /\ tracker' = [IdleTracker EXCEPT
       !.kind = "attachment", !.pc = "findAttachment",
       !.track = Len(tracks) + 1,
       !.attachmentId = attachmentId, !.token = token, !.action = action,
       !.recipientEmail = ""]
  /\ UNCHANGED <<server, client, now, ticks, emailTracking, emailOpens,
                 handlers, reqs, failures, syncs, responses, emailClicks,
                 attachmentTracking, attachmentDownloads>>

(* A lookup by id alone, whatever the token *)
findAttachmentById(attachmentId, token) ==
  {a \in attachmentTracking : a.id = attachmentId}

(* attachmentTrackingCollection.findOne({ id, secureToken: token }) *)
findAttachment(attachmentId, token) ==
  {a \in attachmentTracking : a.id = attachmentId /\ a.secureToken = token}

(* the lookup returns: 404, or downloadData is built and inserted *)
AttachmentFind ==
  /\ tracker.kind = "attachment" /\ tracker.pc = "findAttachment"
  /\ \E ok \in BOOLEAN :
       /\ MayFail(ok)
       /\ CountFailure(ok)
       /\ IF ~ok
            THEN TrackFinish(500, Null, TrackFailed("findAttachment"))
            ELSE LET found == findAttachment(tracker.attachmentId, tracker.token)
                 IN  IF found = {}
                       THEN TrackFinish(404, Null, TrackAttempt("findAttachment"))
                       ELSE \E attachment \in found :
                              /\ tracker' = [tracker EXCEPT
                                   !.pc = "insert",
                                   !.emailId = attachment.emailId,
                                   !.timestamp = nowIso]
                              /\ tracks' = [TrackAttempt("findAttachment") EXCEPT
                                   ![tracker.track].matched = TRUE,
                                   ![tracker.track].emailId = attachment.emailId]
  /\ UNCHANGED <<server, client, now, ticks, emailTracking, emailOpens,
                 handlers, reqs, syncs, responses, emailClicks,
                 attachmentTracking, attachmentDownloads>>

downloadData ==
  [id |-> tracker.track,
   attachmentId |-> tracker.attachmentId,
   recipientEmail |-> tracker.recipientEmail,
   timestamp |-> tracker.timestamp,
   type |-> tracker.action]

(* insertOne(downloadData) returns; ensureEmailDocument is called and     *)
(* stamps sentAt                                                           *)
AttachmentInsert ==
  /\ tracker.kind = "attachment" /\ tracker.pc = "insert"
  /\ \E ok \in BOOLEAN :
       /\ MayFail(ok)
       /\ CountFailure(ok)
       /\ IF ok
            THEN /\ attachmentDownloads' = attachmentDownloads \cup {downloadData}
                 /\ tracks' = TrackAttempt("insert")
                 /\ tracker' = [tracker EXCEPT !.pc = "ensure",
                                               !.sentAtDefault = nowIso]
            ELSE /\ TrackFinish(500, Null, TrackFailed("insert"))
                 /\ UNCHANGED attachmentDownloads
  /\ UNCHANGED <<server, client, now, ticks, emailTracking, emailOpens,
                 handlers, reqs, syncs, responses, emailClicks,
                 attachmentTracking>>

AttachmentEnsure ==
  /\ tracker.kind = "attachment" /\ tracker.pc = "ensure"
  /\ \E ok \in BOOLEAN :
       /\ MayFail(ok)
       /\ CountFailure(ok)
       /\ IF ok
            THEN /\ emailTracking' = TrackerEnsureDocument(tracker.emailId)
                 /\ tracks' = TrackerEnsured(tracker.emailId)
                 /\ tracker' = [tracker EXCEPT !.pc = "update"]
            ELSE /\ TrackFinish(500, Null, TrackFailed("ensure"))
                 /\ UNCHANGED emailTracking
  /\ UNCHANGED <<server, client, now, ticks, emailOpens, handlers, reqs,
                 syncs, responses, emailClicks, attachmentTracking,
                 attachmentDownloads>>

(* An update that counts every action as a download *)
updateDownloadsOnly(doc, action) ==
  [doc EXCEPT !.attachmentDownloads = doc.attachmentDownloads + 1]

(* action === "open" ? {$inc: {attachmentOpens: 1}}                        *)
(*                   : {$inc: {attachmentDownloads: 1}}                    *)
updateFields(doc, action) ==
  IF action = "open"
    THEN [doc EXCEPT !.attachmentOpens = doc.attachmentOpens + 1]
    ELSE [doc EXCEPT !.attachmentDownloads = doc.attachmentDownloads + 1]

RecordAttachmentUpdate(coll) ==
  LET doc == findOne(coll, tracker.emailId)
  IN  IF doc = NoDoc THEN coll
      ELSE (coll \ {doc}) \cup {updateFields(doc, tracker.action)}

(* the counter update returns; fs.existsSync(filePath) decides between     *)
(* res.sendFile and 404                                                    *)
AttachmentUpdate ==
  /\ tracker.kind = "attachment" /\ tracker.pc = "update"
  /\ \E ok \in BOOLEAN :
       /\ MayFail(ok)
       /\ CountFailure(ok)
       /\ IF ok
            THEN /\ emailTracking' = RecordAttachmentUpdate(emailTracking)
                 /\ \E existsSync \in BOOLEAN :
                      TrackFinish(IF existsSync THEN 200 ELSE 404, Null,
                                  TrackAttempt("update"))
            ELSE /\ TrackFinish(500, Null, TrackFailed("update"))
                 /\ UNCHANGED emailTracking
  /\ UNCHANGED <<server, client, now, ticks, emailOpens, handlers, reqs,
                 syncs, responses, emailClicks, attachmentTracking,
                 attachmentDownloads>>

-----------------------------------------------------------------------------
(* POST /track/reading-time/:emailId (src/unnamed/part_000 only) *)

Digits == "0123456789"

IsDigit(c) == \E i \in 1..Len(Digits) : SubSeq(Digits, i, i) = c

DigitValue(c) == (CHOOSE i \in 1..Len(Digits) : SubSeq(Digits, i, i) = c) - 1

RECURSIVE LeadingDigits(_)
LeadingDigits(s) ==
  IF s = "" \/ ~IsDigit(SubSeq(s, 1, 1)) THEN ""
  ELSE SubSeq(s, 1, 1) \o LeadingDigits(SubSeq(s, 2, Len(s)))

RECURSIVE DigitsValue(_)
DigitsValue(s) ==
  IF s = "" THEN 0
  ELSE 10 * DigitsValue(SubSeq(s, 1, Len(s) - 1))
         + DigitValue(SubSeq(s, Len(s), Len(s)))

(* parseInt: the number of the leading digits, NaN when there are none *)
parseInt(s) ==
  IF LeadingDigits(s) = "" THEN NaN ELSE DigitsValue(LeadingDigits(s))

Parsed == [s \in ReadingTimes |-> parseInt(s)]

ReadingReceive(emailId, recipientEmail, readingTime) ==
  /\ server = "part_000"
  /\ tracker.kind = "idle"
  /\ Len(tracks) < MaxTracks
  /\ tracks' = Append(tracks, NewTrack("reading", emailId, recipientEmail))
  /\ tracker' = [IdleTracker EXCEPT
       !.kind = "reading", !.pc = "updateOpen",
       !.track = Len(tracks) + 1,
       !.emailId = emailId, !.recipientEmail = recipientEmail,
       !.readingTime = Parsed[readingTime]]
  /\ UNCHANGED <<server, client, now, ticks, emailTracking, emailOpens,
                 handlers, reqs, failures, syncs, responses, emailClicks,
                 attachmentTracking, attachmentDownloads>>

(* the filter { emailId, recipientEmail, readingTime: null } *)
unreadOpens(emailId, recipientEmail) ==
  {ev \in emailOpens : /\ ev.emailId = emailId
                       /\ ev.recipientEmail = recipientEmail
                       /\ ev.readingTime = NoReadingTime}

(* updateOne(filter, {$set: {readingTime, readingEndTime}},                *)
(* {sort: {timestamp: -1}}): one matching document is modified.  A driver  *)
(* that knows the sort option takes the most recent one, a driver that     *)
(* does not takes the first the store finds.                               *)
ReadingUpdateOpen ==
  /\ tracker.kind = "reading" /\ tracker.pc = "updateOpen"
  /\ \E ok \in BOOLEAN :
       /\ MayFail(ok)
       /\ CountFailure(ok)
       /\ IF ~ok
            THEN /\ TrackFinish(500, Null, TrackFailed("updateOpen"))
                 /\ UNCHANGED emailOpens
            ELSE LET matching == unreadOpens(tracker.emailId, tracker.recipientEmail)
                 IN  IF matching = {}
                       THEN /\ TrackFinish(200, Null, TrackAttempt("updateOpen"))
                            /\ UNCHANGED emailOpens
                       ELSE \E ev \in matching :
                              /\ emailOpens' = (emailOpens \ {ev}) \cup
                                   {[ev EXCEPT !.readingTime = tracker.readingTime,
                                               !.readingEndTime = nowIso]}
                              /\ tracks' = [TrackAttempt("updateOpen") EXCEPT
                                   ![tracker.track].modified = ev.id]
                              /\ tracker' = [tracker EXCEPT !.pc = "findOpens"]
  /\ UNCHANGED <<server, client, now, ticks, emailTracking, handlers, reqs,
                 syncs, responses, emailClicks, attachmentTracking,
                 attachmentDownloads>>

(* find({ emailId, readingTime: { $ne: null } }) *)
readOpens(emailId) ==
  {ev \in emailOpens : ev.emailId = emailId /\ ev.readingTime # NoReadingTime}

RECURSIVE totalReadingTime(_)
totalReadingTime(opens) ==
  IF opens = {} THEN 0
  ELSE LET open == CHOOSE ev \in opens : TRUE
       IN  (IF open.readingTime = NaN THEN 0 ELSE open.readingTime)
             + totalReadingTime(opens \ {open})

(* Math.round(totalReadingTime / opens.length) *)
averageReadingTime(opens) ==
  (2 * totalReadingTime(opens) + Cardinality(opens)) \div (2 * Cardinality(opens))

ReadingFindOpens ==
  /\ tracker.kind = "reading" /\ tracker.pc = "findOpens"
  /\ \E ok \in BOOLEAN :
       /\ MayFail(ok)
       /\ CountFailure(ok)
       /\ IF ~ok
            THEN TrackFinish(500, Null, TrackFailed("findOpens"))
            ELSE LET opens == readOpens(tracker.emailId)
                 IN  IF opens = {}
                       THEN TrackFinish(200, Null, TrackAttempt("findOpens"))
                       ELSE /\ tracks' = TrackAttempt("findOpens")
                            /\ tracker' = [tracker EXCEPT
                                 !.pc = "setAverage",
                                 !.averageReadingTime = averageReadingTime(opens)]
  /\ UNCHANGED <<server, client, now, ticks, emailTracking, emailOpens,
                 handlers, reqs, syncs, responses, emailClicks,
                 attachmentTracking, attachmentDownloads>>

(* updateOne({ id: emailId }, { $set: { averageReadingTime } }) *)
SetAverageReadingTime(coll) ==
  LET doc == findOne(coll, tracker.emailId)
  IN  IF doc = NoDoc THEN coll
      ELSE (coll \ {doc}) \cup
             {[doc EXCEPT !.averageReadingTime = tracker.averageReadingTime]}

ReadingSetAverage ==
  /\ tracker.kind = "reading" /\ tracker.pc = "setAverage"
  /\ \E ok \in BOOLEAN :
       /\ MayFail(ok)
       /\ CountFailure(ok)
       /\ IF ok
            THEN /\ emailTracking' = SetAverageReadingTime(emailTracking)
                 /\ TrackFinish(200, Null, TrackAttempt("setAverage"))
            ELSE /\ TrackFinish(500, Null, TrackFailed("setAverage"))
                 /\ UNCHANGED emailTracking
  /\ UNCHANGED <<server, client, now, ticks, emailOpens, handlers, reqs,
                 syncs, responses, emailClicks, attachmentTracking,
                 attachmentDownloads>>

-----------------------------------------------------------------------------
(* POST /api/sync-tracking-data: the other collections of the upload *)

(* A whole record of the desktop application, counters included *)
RecordUploads == {[id |-> "e1", sentAt |-> toISOString(0), openCount |-> 3],
                  [id |-> "e1", openCount |-> 0 - 1]}

AttachmentUploads == {[id |-> "a1", emailId |-> "e1", secureToken |-> "t1"]}

(* emailClicksCollection.insertMany(newEmailClicks) *)
SyncEmailClicks(emailId, recipientEmail) ==
  /\ syncs < MaxSyncs
  /\ syncs' = syncs + 1
  /\ emailClicks' = emailClicks \cup
       {[id |-> -(syncs + 1), emailId |-> emailId, url |-> "https://x.io/",
         recipientEmail |-> recipientEmail, timestamp |-> nowIso]}
  /\ UNCHANGED <<server, client, now, ticks, emailTracking, emailOpens,
                 handlers, reqs, failures, responses, attachmentTracking,
                 attachmentDownloads, tracker, tracks>>

(* attachmentTrackingCollection.insertMany(docs, { ordered: false })       *)
(* .catch(() => {}): the unique index on id refuses a second document      *)
SyncAttachmentTracking(doc) ==
  /\ syncs < MaxSyncs
  /\ syncs' = syncs + 1
  /\ attachmentTracking' =
       IF \E a \in attachmentTracking : a.id = doc.id
         THEN attachmentTracking ELSE attachmentTracking \cup {doc}
  /\ UNCHANGED <<server, client, now, ticks, emailTracking, emailOpens,
                 handlers, reqs, failures, responses, emailClicks,
                 attachmentDownloads, tracker, tracks>>

(* attachmentDownloadsCollection.insertMany(newAttachmentDownloads) *)
SyncAttachmentDownloads(attachmentId) ==
  /\ syncs < MaxSyncs
  /\ syncs' = syncs + 1
  /\ attachmentDownloads' = attachmentDownloads \cup
       {[id |-> -(syncs + 1), attachmentId |-> attachmentId,
         recipientEmail |-> "", timestamp |-> nowIso, type |-> "download"]}
  /\ UNCHANGED <<server, client, now, ticks, emailTracking, emailOpens,
                 handlers, reqs, failures, responses, emailClicks,
                 attachmentTracking, tracker, tracks>>

-----------------------------------------------------------------------------
(* Time passes *)

Tick(d) ==
  /\ ticks < MaxTicks
  /\ ticks' = ticks + 1
  /\ now' = now + d
  /\ UNCHANGED <<server, client, emailTracking, emailOpens, handlers, reqs,
                 failures, syncs, responses>>
  /\ UNCHANGED trackingVars

-----------------------------------------------------------------------------

Init ==
  /\ server \in Builds
  /\ client \in Clients
  /\ now = StartTime
  /\ ticks = 0
  /\ emailTracking = {}
  /\ emailOpens = {}
  /\ handlers = [h \in HandlerIds |-> IdleHandler]
  /\ reqs = <<>>
  /\ failures = 0
  /\ syncs = 0
  /\ responses = {}
  /\ emailClicks = {}
  /\ attachmentTracking = {}
  /\ attachmentDownloads = {}
  /\ tracker = IdleTracker
  /\ tracks = <<>>

Next ==
  \/ \E t \in Targets : IndexReceive(t[1], t[2], client[1], client[2])
  \/ \E h \in HandlerIds : IndexEnsure(h)
  \/ \E h \in HandlerIds : IndexFindRecent(h)
  \/ \E h \in HandlerIds : IndexInsert(h)
  \/ \E h \in HandlerIds : IndexUpdate(h)
  \/ \E t \in Targets : OpenReceive(t[1], t[2], client[1], client[2])
  \/ \E h \in HandlerIds : OpenFindSent(h)
  \/ \E h \in HandlerIds : OpenEnsure(h)
  \/ \E h \in HandlerIds : OpenInsert(h)
  \/ \E h \in HandlerIds : OpenUpdate(h)
  \/ \E doc \in SyncDocs : SyncEmailTracking(doc)
  \/ \E t \in SyncTargets : SyncEmailOpens(t[1], t[2])
  \/ \E d \in TickSteps : Tick(d)

Spec == Init /\ [][Next]_vars

(* All the tracking endpoints together: one open request in the company of *)
(* the click, attachment and reading-time requests and of every upload.    *)
MaxTrackedOpens == 1

TrackingNext ==
  \/ /\ Len(reqs) < MaxTrackedOpens
     /\ \E t \in Targets : IndexReceive(t[1], t[2], client[1], client[2])
  \/ \E h \in HandlerIds : IndexEnsure(h)
  \/ \E h \in HandlerIds : IndexFindRecent(h)
  \/ \E h \in HandlerIds : IndexInsert(h)
  \/ \E h \in HandlerIds : IndexUpdate(h)
  \/ /\ Len(reqs) < MaxTrackedOpens
     /\ \E t \in Targets : OpenReceive(t[1], t[2], client[1], client[2])
  \/ \E h \in HandlerIds : OpenFindSent(h)
  \/ \E h \in HandlerIds : OpenEnsure(h)
  \/ \E h \in HandlerIds : OpenInsert(h)
  \/ \E h \in HandlerIds : OpenUpdate(h)
  \/ \E t \in ClickTargets, url \in Urls : ClickReceive(t[1], t[2], url)
  \/ ClickEnsure
  \/ ClickInsert
  \/ ClickUpdate
  \/ \E a \in AttachmentIds, token \in Tokens, action \in Actions :
       AttachmentReceive(a, token, action)
  \/ AttachmentFind
  \/ AttachmentInsert
  \/ AttachmentEnsure
  \/ AttachmentUpdate
  \/ \E t \in ReadingTargets, r \in ReadingTimes :
       ReadingReceive(t[1], t[2], r)
  \/ ReadingUpdateOpen
  \/ ReadingFindOpens
  \/ ReadingSetAverage
  \/ \E doc \in SyncDocs \cup RecordUploads : SyncEmailTracking(doc)
  \/ \E t \in SyncTargets : SyncEmailOpens(t[1], t[2])
  \/ \E t \in SyncTargets : SyncEmailClicks(t[1], t[2])
  \/ \E doc \in AttachmentUploads : SyncAttachmentTracking(doc)
  \/ \E a \in AttachmentIds : SyncAttachmentDownloads(a)
  \/ \E d \in TickSteps : Tick(d)

TrackingSpec == Init /\ [][TrackingNext]_vars

(* The open and click endpoints together: two opens and a click of the     *)
(* email e1, which the desktop application may have registered or may      *)
(* upload a click of.                                                      *)
CountingTargets == {<<"e1", "ann@x.io">>, <<"e1", "bob@x.io">>}
CountingUrls == {"https://x.io/a%2Fb"}
CountingTicks == {31000}

CountingNext ==
  \/ \E t \in CountingTargets : IndexReceive(t[1], t[2], client[1], client[2])
  \/ \E h \in HandlerIds : IndexEnsure(h)
  \/ \E h \in HandlerIds : IndexFindRecent(h)
  \/ \E h \in HandlerIds : IndexInsert(h)
  \/ \E h \in HandlerIds : IndexUpdate(h)
  \/ \E t \in CountingTargets : OpenReceive(t[1], t[2], client[1], client[2])
  \/ \E h \in HandlerIds : OpenFindSent(h)
  \/ \E h \in HandlerIds : OpenEnsure(h)
  \/ \E h \in HandlerIds : OpenInsert(h)
  \/ \E h \in HandlerIds : OpenUpdate(h)
  \/ \E url \in CountingUrls : ClickReceive("e1", "ann@x.io", url)
  \/ ClickEnsure
  \/ ClickInsert
  \/ ClickUpdate
  \/ \E doc \in SyncDocs : SyncEmailTracking(doc)
  \/ \E t \in SyncTargets : SyncEmailClicks(t[1], t[2])
  \/ \E d \in CountingTicks : Tick(d)

CountingSpec == Init /\ [][CountingNext]_vars

-----------------------------------------------------------------------------
(* Vocabulary of the properties *)

Logged == 1..Len(reqs)

Stored(i) == \E ev \in emailOpens : ev.id = i

TimestampOf(i) == (CHOOSE ev \in emailOpens : ev.id = i).timestamp

RecordedOpens(e) == {ev \in emailOpens : ev.emailId = e /\ ev.id >= 1}

Uploaded == {ev \in emailOpens : ev.id < 0}

OpenCountOf(e) ==
  IF findOne(emailTracking, e) = NoDoc THEN 0 ELSE findOne(emailTracking, e).openCount

Incremented(i) ==
  /\ \E k \in 1..Len(reqs[i].ops) : reqs[i].ops[k] = "update"
  /\ "update" \notin reqs[i].failedOps

Done(i) == reqs[i].outcome # "pending"

SamePair(i, j) ==
  /\ reqs[i].emailId # Null
  /\ reqs[i].emailId = reqs[j].emailId
  /\ reqs[i].recipientEmail = reqs[j].recipientEmail

(* Rules 1-3 of the specification pass for the browser on a public address; *)
(* rule 4 passes for a request that found no EmailRecord or arrived the     *)
(* threshold after its sentAt.                                              *)
PassesRules1to4(i) ==
  /\ client = <<BrowserUA, PublicIp>>
  /\ reqs[i].outcome \notin {"automated", "sendtime"}
  /\ \/ reqs[i].created
     \/ /\ findOne(emailTracking, reqs[i].emailId) # NoDoc
        /\ reqs[i].at - DateParse(findOne(emailTracking, reqs[i].emailId).sentAt)
             >= SendTimeThresholdMs

(* Requests i and j, handled one after the other, are the only opens of    *)
(* their (emailId, recipientEmail), and no store operation failed.         *)
TwoInSequence(i, j) ==
  /\ i < j
  /\ SamePair(i, j)
  /\ Done(i) /\ Done(j)
  /\ ~reqs[i].overlapped /\ ~reqs[j].overlapped
  /\ failures = 0
  /\ Uploaded = {}
  /\ \A k \in Logged \ {i, j} : ~SamePair(i, k)
  /\ PassesRules1to4(i) /\ PassesRules1to4(j)

-----------------------------------------------------------------------------
(* C1: two requests for the same (emailId, recipientEmail) that pass rules *)
(* 1-4, handled one after the other: less than the dedup window apart,     *)
(* one OpenEvent is stored and openCount is incremented once; more than    *)
(* the window apart, two are stored and openCount is incremented twice.    *)
C1_DedupWindow ==
  \A i, j \in Logged :
    TwoInSequence(i, j) =>
      /\ reqs[j].at - reqs[i].at < DedupWindowMs =>
           /\ Stored(i) /\ Incremented(i)
           /\ ~Stored(j) /\ ~Incremented(j)
      /\ reqs[j].at - reqs[i].at > DedupWindowMs =>
           /\ Stored(i) /\ Incremented(i)
           /\ Stored(j) /\ Incremented(j)

-----------------------------------------------------------------------------
(* C2: whatever the outcome of an open request, the response is status     *)
(* 200, Content-Type image/gif, the 42-byte GIF, Cache-Control             *)
(* no-cache, no-store, must-revalidate, Pragma no-cache, Expires 0.        *)
ThePixel ==
  [status |-> 200,
   headers |-> [contentType |-> "image/gif",
                contentLength |-> 42,
                cacheControl |-> "no-cache, no-store, must-revalidate",
                pragma |-> "no-cache",
                expires |-> "0"],
   body |-> [data |-> GifBase64, length |-> 42]]

C2_SameResponse == \A x \in responses : x.response = ThePixel

(* One behaviour has answered a rejected and an accepted request. *)
C2_RejectedAndAccepted ==
  /\ \E x \in responses : x.outcome = "sendtime"
  /\ \E x \in responses : x.outcome = "recorded"

-----------------------------------------------------------------------------
(* C3: in every state and under every interleaving, openCount of an email  *)
(* is the number of opens inserted for it, less the increments still to    *)
(* come (handlers between their insert and their update) and those whose   *)
(* update the store refused: no increment that took effect is lost.        *)
AwaitingUpdate(e) ==
  {h \in InFlight : handlers[h].emailId = e /\ handlers[h].pc = "update"}

UpdateRefused(e) ==
  {i \in Logged : reqs[i].emailId = e /\ "update" \in reqs[i].failedOps}

C3_NoLostIncrement ==
  \A e \in EmailIds :
    OpenCountOf(e) = Cardinality(RecordedOpens(e))
                       - Cardinality(AwaitingUpdate(e))
                       - Cardinality(UpdateRefused(e))

(* Two overlapping handlers have both incremented the same email. *)
C3_ConcurrentIncrements ==
  \E i, j \in Logged :
    /\ i # j
    /\ reqs[i].emailId = reqs[j].emailId
    /\ reqs[i].overlapped /\ reqs[j].overlapped
    /\ Incremented(i) /\ Incremented(j)
    /\ OpenCountOf(reqs[i].emailId) = 2

-----------------------------------------------------------------------------
(* C4: with an EmailRecord of sentAt = T, a request that arrives at T+1s   *)
(* or T+2s is not recorded, one that arrives at T+10s and that no other    *)
(* rule rejects is recorded, and a request for an emailId without          *)
(* EmailRecord is never rejected by the send-time rule.                    *)
SentAtOf(e) == DateParse(findOne(emailTracking, e).sentAt)

FoundRecord(i) ==
  /\ reqs[i].emailId \in EmailIds
  /\ findOne(emailTracking, reqs[i].emailId) # NoDoc
  /\ \E k \in 1..Len(reqs[i].ops) : reqs[i].ops[k] = "ensure"
  /\ ~reqs[i].created

C4_SendTimeThreshold ==
  \A i \in Logged :
    /\ (FoundRecord(i) /\ reqs[i].at - SentAtOf(reqs[i].emailId) \in {1000, 2000})
         => ~Stored(i) /\ ~Incremented(i)
    /\ ( /\ FoundRecord(i) /\ reqs[i].at - SentAtOf(reqs[i].emailId) = 10000
         /\ client = <<BrowserUA, PublicIp>>
         /\ Done(i) /\ reqs[i].outcome # "duplicate" /\ failures = 0 )
         => Stored(i) /\ Incremented(i)
    /\ reqs[i].outcome = "sendtime" => findOne(emailTracking, reqs[i].emailId) # NoDoc

-----------------------------------------------------------------------------
(* C5: an open request whose User-Agent contains a denylist term, in any   *)
(* casing, is rejected: no OpenEvent is stored, no openCount changes.      *)
SpecDenylist ==
  {"bot", "crawler", "spider", "scraper", "preview", "validator", "checker",
   "monitor", "scanner", "fetcher", "downloader", "mail", "client", "server",
   "daemon", "service"}

DenylistedAgents ==
  {ua \in UserAgents : \E t \in SpecDenylist : includes(toLowerCase(ua), t)}

C5_DenylistRejects ==
  client[1] \in DenylistedAgents =>
    \A e \in EmailIds : RecordedOpens(e) = {} /\ OpenCountOf(e) = 0

-----------------------------------------------------------------------------
(* C6: a rejected request (rules 1-4) or a suppressed duplicate (rule 5)   *)
(* writes nothing: it creates no EmailRecord, inserts no OpenEvent and     *)
(* increments nothing.                                                     *)
C6_NoWriteOnReject ==
  \A i \in Logged :
    reqs[i].outcome \in {"automated", "sendtime", "duplicate"} =>
      ~reqs[i].created /\ ~Stored(i) /\ ~Incremented(i)

-----------------------------------------------------------------------------
(* C7: when a store operation of an open request fails, at whatever step,  *)
(* the handler goes on to the answer: a request is pending only while its  *)
(* handler is at a step it can take, every request that ended after a      *)
(* failure was answered with the 200 pixel, a failed operation of the try  *)
(* block is the last one of its request, and no operation is issued twice  *)
(* (no retry).                                                             *)
HandlerOf(i) == {h \in InFlight : handlers[h].req = i}

StepOf(h) ==
  \/ IndexEnsure(h) \/ IndexFindRecent(h) \/ IndexInsert(h) \/ IndexUpdate(h)
  \/ OpenFindSent(h) \/ OpenEnsure(h) \/ OpenInsert(h) \/ OpenUpdate(h)

C7_FailureStillAnswers ==
  \A i \in Logged :
    /\ ~Done(i) => \E h \in HandlerOf(i) : ENABLED StepOf(h)
    /\ Done(i) =>
         /\ HandlerOf(i) = {}
         /\ \E x \in responses : x.outcome = reqs[i].outcome
         /\ \A x \in responses :
              x.outcome = reqs[i].outcome => x.response = ThePixel
    /\ (Done(i) /\ reqs[i].failedOps # {} /\ reqs[i].failedOps # {"findSent"})
         => /\ reqs[i].outcome = "error"
            /\ reqs[i].ops[Len(reqs[i].ops)] \in reqs[i].failedOps
    /\ \A k, l \in 1..Len(reqs[i].ops) :
         k # l => reqs[i].ops[k] # reqs[i].ops[l]

(* A request whose counter update failed has ended and been answered. *)
C7_AnsweredAfterFailure ==
  \E i \in Logged :
    /\ "update" \in reqs[i].failedOps
    /\ reqs[i].outcome = "error"
    /\ \E x \in responses : x.outcome = "error" /\ x.response = ThePixel

-----------------------------------------------------------------------------
(* C8: a request one of whose store operations failed records nothing: no  *)
(* OpenEvent of it is stored and its increment is not applied; and no      *)
(* finished request is half-recorded (OpenEvent without increment).        *)
C8_NoBookkeepingOnError ==
  \A i \in Logged :
    /\ reqs[i].failedOps # {} => ~Stored(i) /\ ~Incremented(i)
    /\ Done(i) => (Stored(i) <=> Incremented(i))

-----------------------------------------------------------------------------
(* C9: in src/index.js two opens of one (emailId, recipientEmail) are both *)
(* stored inside one dedup window exactly when their handlers overlap: the *)
(* later one looked for a recent open before the earlier one inserted.     *)
(* Handled one after the other, the later one is suppressed.               *)
C9_OverCountOnlyConcurrent ==
  server = "index.js" =>
    \A i, j \in Logged :
      ( /\ i < j /\ SamePair(i, j)
        /\ Stored(i) /\ Stored(j)
        /\ IsoGte(TimestampOf(i), reqs[j].cutoff) )
        => reqs[i].overlapped /\ reqs[j].overlapped

(* The over-count: both handlers passed the lookup, both inserted, both    *)
(* incremented, inside one window.                                         *)
C9_OverCount ==
  /\ server = "index.js"
  /\ \E i, j \in Logged :
       /\ i < j /\ SamePair(i, j)
       /\ reqs[i].overlapped /\ reqs[j].overlapped
       /\ Stored(i) /\ Stored(j)
       /\ IsoGte(TimestampOf(i), reqs[j].cutoff)
       /\ IsoGte(TimestampOf(j), reqs[i].cutoff)
       /\ reqs[i].outcome = "recorded" /\ reqs[j].outcome = "recorded"
       /\ OpenCountOf(reqs[i].emailId) = 2

-----------------------------------------------------------------------------
(* C10: an open request from 127.0.0.1, ::1 or localhost is rejected       *)
(* whatever its User-Agent: no OpenEvent is stored, no openCount changes.  *)
C10_LoopbackRejected ==
  client[2] \in LoopbackAddresses =>
    \A e \in EmailIds : RecordedOpens(e) = {} /\ OpenCountOf(e) = 0

-----------------------------------------------------------------------------
(* C11: an open request whose User-Agent is shorter than 10 characters is  *)
(* rejected, nothing is recorded; a request of the browser from a public   *)
(* address that is not within the send-time threshold of its EmailRecord   *)
(* is accepted: its OpenEvent is stored unless it is a recent duplicate.   *)
C11_ShortUserAgent ==
  /\ Len(client[1]) < MinUserAgentLength =>
       \A e \in EmailIds : RecordedOpens(e) = {} /\ OpenCountOf(e) = 0
  /\ \A i \in Logged :
       ( /\ client = <<BrowserUA, PublicIp>>
         /\ Done(i) /\ failures = 0
         /\ \/ reqs[i].created
            \/ FoundRecord(i)
                 /\ reqs[i].at - SentAtOf(reqs[i].emailId) >= SendTimeThresholdMs )
         => Stored(i) \/ reqs[i].outcome = "duplicate"

-----------------------------------------------------------------------------
(* C12: in src/unnamed/part_000, the only open request for an emailId that *)
(* no upload registered, sent by the browser from a public address and     *)
(* handled without store failure, is accepted: the send-time rule does not *)
(* fire, the EmailRecord is created with sentAt = the time of the open and *)
(* the other counters zero, one OpenEvent is stored and openCount is 1.    *)
FirstSight(i) ==
  /\ server = "part_000"
  /\ client = <<BrowserUA, PublicIp>>
  /\ reqs[i].emailId \in EmailIds
  /\ \A k \in Logged \ {i} : reqs[k].emailId # reqs[i].emailId
  /\ syncs = 0 /\ failures = 0
  /\ Done(i)

C12_FirstOpenCreatesRecord ==
  \A i \in Logged :
    FirstSight(i) =>
      LET doc == findOne(emailTracking, reqs[i].emailId)
      IN  /\ reqs[i].outcome = "recorded"
          /\ reqs[i].created
          /\ doc # NoDoc
          /\ doc.sentAt = TimestampOf(i)
          /\ DateParse(doc.sentAt) >= reqs[i].at
          /\ doc.openCount = 1
          /\ doc.clickCount = 0
          /\ doc.attachmentDownloads = 0 /\ doc.attachmentOpens = 0
          /\ Cardinality(RecordedOpens(reqs[i].emailId)) = 1

(* Such a request has been answered. *)
C12_FirstOpenDone == \E i \in Logged : FirstSight(i) /\ Stored(i)

-----------------------------------------------------------------------------
(* C13: no step of any endpoint (open, click, attachment, reading-time,    *)
(* upload) changes the sentAt of an EmailRecord that exists, and a step of *)
(* ensureEmailDocument leaves every existing EmailRecord as it is.         *)
EnsureStep ==
  \/ \E h \in HandlerIds : IndexEnsure(h) \/ OpenEnsure(h)
  \/ ClickEnsure
  \/ AttachmentEnsure
  \/ \E doc \in SyncDocs \cup RecordUploads : SyncEmailTracking(doc)

C13_SentAtImmutable ==
  [][ /\ \A d \in emailTracking :
           \E d2 \in emailTracking' : d2.id = d.id /\ d2.sentAt = d.sentAt
      /\ EnsureStep => emailTracking \subseteq emailTracking' ]_vars

(* An uploaded EmailRecord that an open, arriving later, has found and     *)
(* updated: its sentAt is still the uploaded one.                          *)
C13_UpdatedAfterUpload ==
  \E i \in Logged :
    /\ Incremented(i) /\ ~reqs[i].created
    /\ findOne(emailTracking, reqs[i].emailId).sentAt = toISOString(0)
    /\ \E k \in DOMAIN tracks :
         /\ tracks[k].emailId = reqs[i].emailId
         /\ \E n \in 1..Len(tracks[k].ops) : tracks[k].ops[n] = "ensure"
         /\ "ensure" \notin tracks[k].failedOps

-----------------------------------------------------------------------------
(* C14: after every step, the four counters of every EmailRecord are       *)
(* non-negative, and none is smaller than it was before the step.          *)
Counters == {"openCount", "clickCount", "attachmentDownloads", "attachmentOpens"}

C14_CountersMonotone ==
  [][ \A d2 \in emailTracking' : \A c \in Counters :
        /\ d2[c] >= 0
        /\ \A d \in emailTracking : d.id = d2.id => d2[c] >= d[c] ]_vars

-----------------------------------------------------------------------------
(* C15: the stored OpenEvents change only by the insert of an open handler *)
(* that the classifier let through, which adds exactly one new OpenEvent;  *)
(* no other step adds, changes or removes one.                             *)
C15_OpenEventsOnlyOnAccept ==
  [][ emailOpens' # emailOpens =>
        \E h \in InFlight :
          /\ handlers[h].pc = "insert"
          /\ openData(h) \notin emailOpens
          /\ emailOpens' = emailOpens \cup {openData(h)} ]_vars

-----------------------------------------------------------------------------
(* C16: in every state no two EmailRecords have the same id, also when an  *)
(* open, a click or an attachment download meet the same unregistered id   *)
(* at the same time; at most one of the requests for an id created its     *)
(* record, and the record it created has the sentAt that handler stamped:  *)
(* the time of the event for an open or a click, a time between arrival    *)
(* and creation for an attachment download.                                *)
OpenCreators(e) == {i \in Logged : reqs[i].emailId = e /\ reqs[i].created}

TrackCreators(e) ==
  {k \in DOMAIN tracks : tracks[k].emailId = e /\ tracks[k].created}

C16_OneRecordPerId ==
  /\ \A d1, d2 \in emailTracking : d1.id = d2.id => d1 = d2
  /\ \A e \in EmailIds :
       /\ Cardinality(OpenCreators(e)) + Cardinality(TrackCreators(e)) <= 1
       /\ \A i \in OpenCreators(e) :
            LET doc == findOne(emailTracking, e)
            IN  /\ doc # NoDoc
                /\ reqs[i].at <= DateParse(doc.sentAt)
                /\ DateParse(doc.sentAt) <= now
                /\ Stored(i) => doc.sentAt = TimestampOf(i)
       /\ \A k \in TrackCreators(e) :
            LET doc == findOne(emailTracking, e)
            IN  /\ doc # NoDoc
                /\ tracks[k].at <= DateParse(doc.sentAt)
                /\ DateParse(doc.sentAt) <= now
                /\ tracks[k].kind = "click" =>
                     doc.sentAt = toISOString(tracks[k].at)

(* An open handler and a click handler, both in flight and both past       *)
(* their ensureEmailDocument for the same unregistered id: one created.    *)
C16_ConcurrentFirstSight ==
  /\ syncs = 0
  /\ tracker.kind = "click" /\ tracker.pc \in {"insert", "update"}
  /\ \E h \in InFlight :
       /\ handlers[h].pc \in {"findRecent", "insert", "update"}
       /\ handlers[h].emailId = tracker.emailId
       /\ reqs[handlers[h].req].created # tracks[tracker.track].created
       /\ Cardinality({d \in emailTracking : d.id = tracker.emailId}) = 1

-----------------------------------------------------------------------------
(* C17: once an accepted open that overlapped no other request has ended,  *)
(* and until a later open of the email is counted, lastOpenedAt of the     *)
(* EmailRecord is the timestamp of its OpenEvent and recipientEmail is the *)
(* recipientEmail of the request, whatever they were before; and every     *)
(* step that changes openCount adds one and sets both fields from the      *)
(* handler that takes it.                                                  *)
LastCounted(i) ==
  /\ reqs[i].outcome = "recorded"
  /\ ~reqs[i].overlapped
  /\ \A j \in Logged :
       (j > i /\ reqs[j].emailId = reqs[i].emailId) => ~Incremented(j)

C17_LastWriterWins ==
  /\ [](\A i \in Logged :
          LastCounted(i) =>
            LET doc == findOne(emailTracking, reqs[i].emailId)
            IN  /\ doc.lastOpenedAt = TimestampOf(i)
                /\ doc.recipientEmail = reqs[i].recipientEmail)
  /\ [][ \A d \in emailTracking : \A d2 \in emailTracking' :
           (d2.id = d.id /\ d2.openCount # d.openCount) =>
             \E h \in InFlight :
               /\ handlers[h].pc = "update"
               /\ handlers[h].emailId = d.id
               /\ d2.openCount = d.openCount + 1
               /\ d2.lastOpenedAt = handlers[h].timestamp
               /\ d2.recipientEmail = handlers[h].recipientEmail ]_vars

(* Two opens of one email by different recipients, one after the other:    *)
(* the record carries the recipient and the timestamp of the second.       *)
C17_Overwritten ==
  \E i, j \in Logged :
    /\ i < j
    /\ reqs[i].emailId = reqs[j].emailId
    /\ reqs[i].recipientEmail # reqs[j].recipientEmail
    /\ reqs[i].outcome = "recorded" /\ LastCounted(j)
    /\ TimestampOf(i) # TimestampOf(j)
    /\ findOne(emailTracking, reqs[j].emailId).lastOpenedAt = TimestampOf(j)
    /\ findOne(emailTracking, reqs[j].emailId).recipientEmail
         = reqs[j].recipientEmail

-----------------------------------------------------------------------------
(* C18: in src/index.js an OpenEvent of another (emailId, recipientEmail): *)
(* same email and other recipient, or other email and same recipient, does *)
(* not suppress an open, not even inside the window: a request that finds  *)
(* no stored OpenEvent of its own pair is recorded and counted.            *)
OtherOfPair(j) ==
  {ev \in emailOpens : /\ ev.id # j
                       /\ ev.emailId = reqs[j].emailId
                       /\ ev.recipientEmail = reqs[j].recipientEmail}

C18_KeyedOnPair ==
  server = "index.js" =>
    \A i, j \in Logged :
      ( /\ i # j
        /\ reqs[i].emailId \in EmailIds /\ reqs[j].emailId \in EmailIds
        /\ ~SamePair(i, j)
        /\ Stored(i)
        /\ Done(j) /\ failures = 0
        /\ OtherOfPair(j) = {} )
        => /\ reqs[j].outcome = "recorded"
           /\ Stored(j) /\ Incremented(j)
           /\ Done(i) => Incremented(i)

(* Two opens of one email by different recipients, the first inside the    *)
(* window of the second, both recorded.                                    *)
C18_OtherRecipientRecorded ==
  /\ server = "index.js"
  /\ \E i, j \in Logged :
       /\ i < j
       /\ reqs[i].emailId = reqs[j].emailId
       /\ reqs[i].recipientEmail # reqs[j].recipientEmail
       /\ reqs[i].outcome = "recorded" /\ reqs[j].outcome = "recorded"
       /\ IsoGte(TimestampOf(i), reqs[j].cutoff)
       /\ OpenCountOf(reqs[i].emailId) = 2

-----------------------------------------------------------------------------
(* C19: in src/unnamed/part_000 an open that arrives less than 30 seconds  *)
(* after the sentAt of its EmailRecord is not recorded; one that arrives   *)
(* 30 seconds or more after it is not rejected by the send-time check.     *)
ClaimedThresholdMs == 30 * 1000

C19_ThirtySeconds ==
  server = "part_000" =>
    \A i \in Logged :
      /\ ( /\ FoundRecord(i) /\ failures = 0
           /\ reqs[i].at > SentAtOf(reqs[i].emailId)
           /\ reqs[i].at - SentAtOf(reqs[i].emailId) < ClaimedThresholdMs )
           => ~Stored(i) /\ ~Incremented(i)
      /\ ( /\ reqs[i].emailId \in EmailIds
           /\ findOne(emailTracking, reqs[i].emailId) # NoDoc
           /\ reqs[i].at - SentAtOf(reqs[i].emailId) >= ClaimedThresholdMs )
           => reqs[i].outcome # "sendtime"

-----------------------------------------------------------------------------
(* C20: a click request without url is answered 400, without redirect,     *)
(* and its step changes nothing in the store: no EmailRecord is created,   *)
(* no click event is inserted, no counter changes, no handler is left      *)
(* running.                                                                *)
C20_ClickWithoutUrl ==
  /\ [](\A k \in DOMAIN tracks :
          (tracks[k].kind = "click" /\ tracks[k].url = "") =>
            /\ tracks[k].status = 400
            /\ tracks[k].location = Null
            /\ tracks[k].ops = <<>>
            /\ ~tracks[k].created
            /\ ~\E c \in emailClicks : c.id = k)
  /\ [][ (\E t \in ClickTargets : ClickReceive(t[1], t[2], "")) =>
           UNCHANGED <<emailTracking, emailOpens, emailClicks,
                       attachmentTracking, attachmentDownloads, tracker>> ]_vars

(* Such a click for an email whose record exists: clickCount is still 0.   *)
C20_Answered400 ==
  \E k \in DOMAIN tracks :
    /\ tracks[k].kind = "click" /\ tracks[k].url = ""
    /\ tracks[k].status = 400
    /\ \E d \in emailTracking : d.id = tracks[k].emailId /\ d.clickCount = 0

-----------------------------------------------------------------------------
(* C21: a click request with a url always ends in a redirect to that url,  *)
(* whether the store writes succeed or fail: once its handler has ended,   *)
(* the answer is 302 with the decoded url as Location.                     *)
ClickEnded(k) ==
  /\ tracks[k].kind = "click"
  /\ ~InvalidUrl(tracks[k].url)
  /\ tracker.track # k

C21_ClickAlwaysRedirects ==
  \A k \in DOMAIN tracks :
    ClickEnded(k) =>
      /\ tracks[k].status = 302
      /\ tracks[k].location = Decoded[tracks[k].url]

-----------------------------------------------------------------------------
(* C22: an attachment request whose (attachmentId, token) matches no       *)
(* stored attachment is answered 404 (500 when the lookup itself fails)    *)
(* by the lookup step, which ends the handler and leaves every collection  *)
(* unchanged: no download record, no EmailRecord, no counter change.       *)
NoMatch(attachmentId, token) ==
  ~\E a \in attachmentTracking : a.id = attachmentId /\ a.secureToken = token

C22_UnknownAttachment ==
  /\ [](\A k \in DOMAIN tracks :
          (tracks[k].kind = "attachment" /\ ~tracks[k].matched
             /\ tracker.track # k) =>
            /\ tracks[k].status = IF tracks[k].failedOps = {} THEN 404 ELSE 500
            /\ tracks[k].ops = <<"findAttachment">>
            /\ ~tracks[k].created
            /\ ~\E dl \in attachmentDownloads : dl.id = k)
  /\ [][ (AttachmentFind /\ NoMatch(tracker.attachmentId, tracker.token)) =>
           /\ tracker' = IdleTracker
           /\ ~tracks'[tracker.track].matched
           /\ UNCHANGED <<emailTracking, emailOpens, emailClicks,
                          attachmentTracking, attachmentDownloads>> ]_vars

(* A request with a stale token for a stored attachment, answered 404, the *)
(* attachment's EmailRecord and the downloads as they were.                *)
C22_StaleToken404 ==
  \E k \in DOMAIN tracks :
    /\ tracks[k].kind = "attachment" /\ tracks[k].status = 404
    /\ ~tracks[k].matched
    /\ \E a \in attachmentTracking :
         /\ a.id = tracks[k].attachmentId /\ a.secureToken # tracks[k].token
         /\ \E d \in emailTracking :
              d.id = a.emailId /\ d.attachmentDownloads = 0 /\ d.attachmentOpens = 0
    /\ attachmentDownloads = {}

-----------------------------------------------------------------------------
(* C23: a valid attachment request (matching id and token, no store error) *)
(* inserts exactly one download record and increments exactly one counter  *)
(* of the attachment's EmailRecord by 1: attachmentOpens when action is    *)
(* "open", attachmentDownloads otherwise; every other field and record is  *)
(* unchanged.  The response, 200 or 404 for a missing file, comes after.   *)
DownloadsOf(k) == {dl \in attachmentDownloads : dl.id = k}

CountedField(action) ==
  IF action = "open" THEN "attachmentOpens" ELSE "attachmentDownloads"

C23_AttachmentBookkeeping ==
  /\ [](\A k \in DOMAIN tracks :
          (tracks[k].kind = "attachment" /\ tracks[k].matched
             /\ tracks[k].failedOps = {} /\ tracker.track # k) =>
            /\ tracks[k].status \in {200, 404}
            /\ tracks[k].ops = <<"findAttachment", "insert", "ensure", "update">>
            /\ Cardinality(DownloadsOf(k)) = 1
            /\ \A dl \in DownloadsOf(k) :
                 /\ dl.type = tracks[k].action
                 /\ dl.attachmentId = tracks[k].attachmentId)
  /\ [][ (AttachmentInsert /\ failures' = failures) =>
           /\ attachmentDownloads' # attachmentDownloads
           /\ Cardinality(attachmentDownloads' \ attachmentDownloads) = 1
           /\ attachmentDownloads \subseteq attachmentDownloads'
           /\ UNCHANGED emailTracking ]_vars
  /\ [][ (AttachmentEnsure /\ failures' = failures) =>
           /\ emailTracking \subseteq emailTracking'
           /\ UNCHANGED attachmentDownloads ]_vars
  /\ [][ (AttachmentUpdate /\ failures' = failures) =>
           LET doc == findOne(emailTracking, tracker.emailId)
               f == CountedField(tracker.action)
           IN  /\ doc # NoDoc
               /\ emailTracking' =
                    (emailTracking \ {doc}) \cup {[doc EXCEPT ![f] = doc[f] + 1]}
               /\ tracks'[tracker.track].status \in {200, 404}
               /\ UNCHANGED attachmentDownloads ]_vars

(* An "open" of an attachment whose file is missing: answered 404, counted *)
(* in attachmentOpens, one download record.                                *)
C23_CountedBeforeFileLookup ==
  \E k \in DOMAIN tracks :
    /\ tracks[k].kind = "attachment" /\ tracks[k].matched
    /\ tracks[k].failedOps = {} /\ tracks[k].status = 404
    /\ tracks[k].action = "open"
    /\ Cardinality(DownloadsOf(k)) = 1
    /\ \E d \in emailTracking :
         /\ d.id = tracks[k].emailId
         /\ d.attachmentOpens = 1 /\ d.attachmentDownloads = 0
         /\ d.openCount = 0 /\ d.clickCount = 0

(* The same for an action that is neither "open" nor "download" *)
C23_OtherActionCounted ==
  \E k \in DOMAIN tracks :
    /\ tracks[k].kind = "attachment" /\ tracks[k].status = 200
    /\ tracks[k].action = "preview"
    /\ \E d \in emailTracking :
         d.id = tracks[k].emailId /\ d.attachmentDownloads = 1 /\ d.attachmentOpens = 0

-----------------------------------------------------------------------------
(* C24: a reading-time report modifies at most one OpenEvent, the most     *)
(* recent one of its (emailId, recipientEmail) whose readingTime is still  *)
(* null; an OpenEvent whose readingTime is set is never changed again; a   *)
(* report that matches no such OpenEvent changes no OpenEvent and ends     *)
(* without touching averageReadingTime.                                    *)
MostRecent(opens) ==
  {ev \in opens : \A o \in opens : IsoGte(ev.timestamp, o.timestamp)}

-----------------------------------------------------------------------------
(* C25: when no open request is in flight, no store operation has failed   *)
(* and no OpenEvent was uploaded, every EmailRecord (all of them created   *)
(* with counters 0 under CountingSpec) has openCount equal to the number   *)
(* of stored OpenEvents of its emailId and clickCount equal to the number  *)
(* of stored click events of its emailId.                                  *)
OpensOf(e) == {ev \in emailOpens : ev.emailId = e}

ClicksOf(e) == {c \in emailClicks : c.emailId = e}

UploadedClicks == {c \in emailClicks : c.id < 0}

NoOpenPending == InFlight = {} /\ failures = 0 /\ Uploaded = {}

C25_CountsMatchEvents ==
  \A d \in emailTracking :
    NoOpenPending =>
      /\ d.openCount = Cardinality(OpensOf(d.id))
      /\ d.clickCount = Cardinality(ClicksOf(d.id))

(* C25 as amended: the same with no click request in flight and no click   *)
(* event uploaded either.                                                  *)
C25_CountsMatchWhenQuiescent ==
  \A d \in emailTracking :
    (NoOpenPending /\ tracker.kind = "idle" /\ UploadedClicks = {}) =>
      /\ d.openCount = Cardinality(OpensOf(d.id))
      /\ d.clickCount = Cardinality(ClicksOf(d.id))

(* Two opens and a click of one email, the click handled while an open was *)
(* in flight, all counted.                                                 *)
C25_OpensAndClickCounted ==
  /\ NoOpenPending /\ tracker.kind = "idle" /\ UploadedClicks = {}
  /\ \E d \in emailTracking :
       /\ d.openCount = 2 /\ Cardinality(OpensOf(d.id)) = 2
       /\ d.clickCount = 1 /\ Cardinality(ClicksOf(d.id)) = 1
       /\ \E i \in Logged, k \in DOMAIN tracks :
            /\ reqs[i].emailId = d.id /\ tracks[k].emailId = d.id
            /\ reqs[i].overlapped
            /\ tracks[k].at >= reqs[i].at

-----------------------------------------------------------------------------
(* C26: in src/unnamed/part_000, for an emailId without EmailRecord, two   *)
(* opens handled one after the other less than the threshold apart record  *)
(* only the first: it creates the record with sentAt = now and the second  *)
(* is rejected by the send-time rule.  Handled concurrently, both can find *)
(* no record and both be recorded (the witness).                           *)
SameEmail(i, j) ==
  /\ reqs[i].emailId \in EmailIds
  /\ reqs[i].emailId = reqs[j].emailId

WithinThreshold(e) ==
  /\ findOne(emailTracking, e) # NoDoc
  /\ now - SentAtOf(e) < SendTimeThresholdMs

C26_SequentialSecondRejected ==
  server = "part_000" =>
    \A i, j \in Logged :
      ( /\ i < j /\ SameEmail(i, j)
        /\ ~reqs[i].overlapped /\ ~reqs[j].overlapped
        /\ reqs[i].created /\ reqs[i].outcome = "recorded"
        /\ Done(j) /\ failures = 0
        /\ WithinThreshold(reqs[i].emailId) )
        => /\ reqs[j].outcome = "sendtime"
           /\ ~Stored(j) /\ ~Incremented(j)
           /\ SentAtOf(reqs[i].emailId) = DateParse(TimestampOf(i))
           /\ OpenCountOf(reqs[i].emailId) = 1

(* Two overlapping opens of an unregistered email, less than the threshold *)
(* after the sentAt the first one seeded, both recorded: openCount is 2.   *)
C26_ConcurrentBothRecorded ==
  /\ server = "part_000"
  /\ failures = 0 /\ syncs = 0
  /\ \E i, j \in Logged :
       /\ i < j /\ SameEmail(i, j)
       /\ reqs[i].overlapped /\ reqs[j].overlapped
       /\ reqs[i].outcome = "recorded" /\ reqs[j].outcome = "recorded"
       /\ reqs[i].created \/ reqs[j].created
       /\ WithinThreshold(reqs[i].emailId)
       /\ OpenCountOf(reqs[i].emailId) = 2

-----------------------------------------------------------------------------
(* C27: when no open request of an email is in flight (no store operation  *)
(* failed and no OpenEvent was uploaded), the lastOpenedAt of its          *)
(* EmailRecord is the greatest timestamp of its stored OpenEvents.         *)
OpensInFlight(e) == {h \in InFlight : handlers[h].emailId = e}

C27_LastOpenedAtIsGreatest ==
  \A e \in EmailIds :
    ( /\ OpensInFlight(e) = {}
      /\ failures = 0 /\ Uploaded = {}
      /\ RecordedOpens(e) # {} )
      => /\ findOne(emailTracking, e) # NoDoc
         /\ \A ev \in RecordedOpens(e) :
              IsoGte(findOne(emailTracking, e).lastOpenedAt, ev.timestamp)

-----------------------------------------------------------------------------
(* C28: in src/unnamed/part_000, after a click or an accepted open has     *)
(* created the EmailRecord of an unregistered emailId with sentAt = now,   *)
(* every open of that emailId that arrives after that sentAt and is        *)
(* answered less than the threshold after it is rejected by the send-time  *)
(* rule and not recorded.                                                  *)
CreatedJustInTime(e) ==
  \/ \E i \in Logged : reqs[i].emailId = e /\ reqs[i].created
  \/ \E k \in DOMAIN tracks :
       tracks[k].kind = "click" /\ tracks[k].emailId = e /\ tracks[k].created

ArrivedAfterCreation(j) ==
  /\ reqs[j].emailId \in EmailIds
  /\ ~reqs[j].created
  /\ CreatedJustInTime(reqs[j].emailId)
  /\ reqs[j].at > SentAtOf(reqs[j].emailId)
  /\ WithinThreshold(reqs[j].emailId)

C28_JustInTimeBlocksOpens ==
  server = "part_000" =>
    \A j \in Logged :
      (ArrivedAfterCreation(j) /\ failures = 0) =>
        /\ ~Stored(j)
        /\ Done(j) => reqs[j].outcome = "sendtime"

====
